---- MODULE Spec2Model ----
(***************************************************************************)
(* A model of seatmap_parser.py: the coercion of XML text to typed values  *)
(* (text_to_value), the recursive conversion of an ElementTree to nested   *)
(* dicts and lists (get_node_content, parse_xml, root_to_dict) and the     *)
(* batch driver (main).                                                    *)
(*                                                                         *)
(* A Python str is a sequence of one-character strings.  The character     *)
(* U+00B2 (SUPERSCRIPT TWO) is written "SUP2".  A Python value is a record *)
(* tagged by its type; an exception that leaves a function is a record     *)
(* tagged "TypeError" or "ValueError".                                     *)
(***************************************************************************)
EXTENDS Integers, Sequences, FiniteSets, TLC

VARIABLES
    text,      \* SpecCoerce: the argument of text_to_value
    value,     \* SpecCoerce: what text_to_value returned (or raised)
    root,      \* SpecTree: the root Element handed to root_to_dict
    result,    \* SpecTree: what root_to_dict returned (or raised)
    fs,        \* Spec: the file system, file name -> what the file holds
    files,     \* Spec: the argument of main
    idx,       \* Spec: the position of main's for loop in files
    written,   \* Spec: the output files written so far, name -> content
    diags,     \* Spec: the files named by a printed diagnostic, in order
    pc         \* the control state of the specification in use

vars == <<text, value, root, result, fs, files, idx, written, diags, pc>>

----------------------------------------------------------------------------
(* Bounds *)

\* Longest text handed to text_to_value, over CoerceChars.
MaxTextLen == 3
\* Most elements in a document.
MaxNodes == 3
\* Most file names handed to main.
MaxFiles == 3

----------------------------------------------------------------------------
(* Characters and strings *)

Lower == <<"a","b","c","d","e","f","g","h","i","j","k","l","m",
           "n","o","p","q","r","s","t","u","v","w","x","y","z">>
Upper == <<"A","B","C","D","E","F","G","H","I","J","K","L","M",
           "N","O","P","Q","R","S","T","U","V","W","X","Y","Z">>
Decimal == <<"0","1","2","3","4","5","6","7","8","9">>

Range(s) == {s[i] : i \in 1..Len(s)}

Letters == Range(Lower) \cup Range(Upper)
DecimalChars == Range(Decimal)
\* Characters str.strip() and float() take for white space.
Whitespace == {" ", "\n", "\t"}

SetMin(S) == CHOOSE x \in S : \A y \in S : x <= y
SetMax(S) == CHOOSE x \in S : \A y \in S : x >= y

\* str.casefold() on one character.
FoldChar(c) ==
    IF c \in Range(Upper)
    THEN Lower[CHOOSE i \in 1..Len(Upper) : Upper[i] = c]
    ELSE c

\* str.casefold()
Casefold(s) == [i \in 1..Len(s) |-> FoldChar(s[i])]

\* str.strip()
Strip(s) ==
    LET keep == {i \in 1..Len(s) : s[i] \notin Whitespace}
    IN  IF keep = {} THEN <<>> ELSE SubSeq(s, SetMin(keep), SetMax(keep))

DigitValue(c) == (CHOOSE i \in 1..Len(Decimal) : Decimal[i] = c) - 1

\* The number a sequence of decimal digits writes.
RECURSIVE NatOf(_)
NatOf(s) ==
    IF s = <<>> THEN 0
    ELSE 10 * NatOf(SubSeq(s, 1, Len(s) - 1)) + DigitValue(s[Len(s)])

OnlyDecimals(s) == SelectSeq(s, LAMBDA c : c \in DecimalChars)

----------------------------------------------------------------------------
(* Python values *)

PyNone == [type |-> "null"]
PyBool(b) == [type |-> "bool", b |-> b]
PyInt(n) == [type |-> "int", n |-> n]
PyFloat(kind, sign, mant, exp) ==
    [type |-> "float", kind |-> kind, sign |-> sign, mant |-> mant, exp |-> exp]
PyStr(s) == [type |-> "str", s |-> s]
PyDict(d) == [type |-> "object", d |-> d]
PyList(l) == [type |-> "list", l |-> l]
TypeError == [type |-> "TypeError"]
ValueError == [type |-> "ValueError"]

IsError(v) == v.type \in {"TypeError", "ValueError"}

\* bool(v): the truth value Python's `if v:` tests.
Truthy(v) ==
    CASE v.type = "null" -> FALSE
      [] v.type = "bool" -> v.b
      [] v.type = "int" -> v.n # 0
      [] v.type = "float" -> ~(v.kind = "finite" /\ v.mant = 0)
      [] v.type = "str" -> v.s # <<>>
      [] v.type = "object" -> DOMAIN v.d # {}
      [] v.type = "list" -> v.l # <<>>

----------------------------------------------------------------------------
(* int() and float() *)

\* str.isdigit(): non-empty, and every character has the Unicode property
\* Digit; SUPERSCRIPT TWO has it and is no decimal digit.
IsDigit(s) == s # <<>> /\ \A i \in 1..Len(s) : s[i] \in DecimalChars \cup {"SUP2"}

\* int(s) for a string that passed isdigit(): int() accepts decimal digits
\* only and raises ValueError on any other digit character.
IntOf(s) ==
    IF \A i \in 1..Len(s) : s[i] \in DecimalChars THEN PyInt(NatOf(s)) ELSE ValueError

\* digitpart of float()'s grammar: digits, single underscores between them.
IsDigitPart(s) ==
    /\ s # <<>>
    /\ s[1] \in DecimalChars
    /\ s[Len(s)] \in DecimalChars
    /\ \A i \in 1..Len(s) : s[i] \in DecimalChars \cup {"_"}
    /\ \A i \in 1..(Len(s) - 1) : ~(s[i] = "_" /\ s[i + 1] = "_")

Positions(s, C) == {i \in 1..Len(s) : s[i] \in C}

DropSign(s) == IF s # <<>> /\ s[1] \in {"+", "-"} THEN Tail(s) ELSE s
SignOf(s) == IF s # <<>> /\ s[1] = "-" THEN -1 ELSE 1

\* The part of a number before its exponent, and the exponent's text.
MantissaText(s) ==
    LET e == Positions(s, {"e", "E"})
    IN  IF e = {} THEN s ELSE SubSeq(s, 1, SetMin(e) - 1)
HasExponent(s) == Positions(s, {"e", "E"}) # {}
ExponentText(s) == SubSeq(s, SetMin(Positions(s, {"e", "E"})) + 1, Len(s))

IntPart(m) ==
    LET d == Positions(m, {"."})
    IN  IF d = {} THEN m ELSE SubSeq(m, 1, SetMin(d) - 1)
FracPart(m) ==
    LET d == Positions(m, {"."})
    IN  IF d = {} THEN <<>> ELSE SubSeq(m, SetMin(d) + 1, Len(m))

IsMantissa(m) ==
    /\ IntPart(m) = <<>> \/ IsDigitPart(IntPart(m))
    /\ FracPart(m) = <<>> \/ IsDigitPart(FracPart(m))
    /\ IntPart(m) # <<>> \/ FracPart(m) # <<>>

\* floatnumber of float()'s grammar, the sign taken off.
IsFloatNumber(s) ==
    /\ IsMantissa(MantissaText(s))
    /\ HasExponent(s) => IsDigitPart(DropSign(ExponentText(s)))

Infinities == {<<"i","n","f">>, <<"i","n","f","i","n","i","t","y">>}
NaNs == {<<"n","a","n">>}

\* Whether float(s) returns rather than raising ValueError.
FloatOk(s) ==
    LET body == DropSign(Strip(s))
    IN  \/ Casefold(body) \in Infinities \cup NaNs
        \/ IsFloatNumber(body)

RECURSIVE NumDigits(_)
NumDigits(n) == IF n < 10 THEN 1 ELSE 1 + NumDigits(n \div 10)

\* mant * 10^exp with the trailing zeros of mant moved into exp.
RECURSIVE Normal(_, _, _)
Normal(sign, mant, exp) ==
    IF mant = 0 THEN PyFloat("finite", sign, 0, 0)
    ELSE IF mant % 10 = 0 THEN Normal(sign, mant \div 10, exp + 1)
    ELSE PyFloat("finite", sign, mant, exp)

\* The largest and the smallest decimal exponent (of d.ddd * 10^e) a double
\* holds; beyond them float() returns inf or zero.
MaxDecimalExp == 308
MinDecimalExp == -323

\* float(s), for a string float() accepts.  A finite double is held as
\* sign * mant * 10^exp; the strings of the model are too short to need
\* rounding of the mantissa.
\* The digits of a mantissa's text as a number, and how many of them follow
\* the point.
MantissaDigits(m) == NatOf(OnlyDecimals(IntPart(m)) \o OnlyDecimals(FracPart(m)))
FracLen(m) == Len(OnlyDecimals(FracPart(m)))
ExponentValue(e) == SignOf(e) * NatOf(OnlyDecimals(e))

\* A decimal brought into the range of a double.
Clamp(norm) ==
    IF norm.mant = 0 THEN norm
    ELSE IF NumDigits(norm.mant) + norm.exp - 1 > MaxDecimalExp
         THEN PyFloat("inf", norm.sign, 0, 0)
    ELSE IF NumDigits(norm.mant) + norm.exp - 1 < MinDecimalExp
         THEN PyFloat("finite", norm.sign, 0, 0)
    ELSE norm

FloatOfBody(sign, body) ==
    IF Casefold(body) \in Infinities THEN PyFloat("inf", sign, 0, 0)
    ELSE IF Casefold(body) \in NaNs THEN PyFloat("nan", 1, 0, 0)
    ELSE Clamp(Normal(sign, MantissaDigits(MantissaText(body)),
                      (IF HasExponent(body)
                       THEN ExponentValue(ExponentText(body)) ELSE 0)
                        - FracLen(MantissaText(body))))

FloatOf(s) == FloatOfBody(SignOf(Strip(s)), DropSign(Strip(s)))

----------------------------------------------------------------------------
(* text_to_value *)

\* ALPHANUMERIC = r"[A-Za-z1-9]+": the characters the pattern matches.
ALPHANUMERIC == Letters \cup (DecimalChars \ {"0"})

\* re.search(ALPHANUMERIC, s) finds a match.
SearchAlphanumeric(s) == \E i \in 1..Len(s) : s[i] \in ALPHANUMERIC

\* text_to_value after `txt = text.casefold()`.
CoerceFolded(t, txt) ==
    IF txt = <<"t","r","u","e">> THEN PyBool(TRUE)
    ELSE IF txt = <<"f","a","l","s","e">> THEN PyBool(FALSE)
    ELSE IF IsDigit(txt) THEN IntOf(txt)
    ELSE IF FloatOk(txt) THEN FloatOf(txt)
    ELSE IF ~SearchAlphanumeric(txt) THEN PyNone
    ELSE PyStr(t)

text_to_value(t) == CoerceFolded(t, Casefold(t))

----------------------------------------------------------------------------
(* ElementTree elements *)

\* An xml.etree.ElementTree.Element: its tag, its attributes in document
\* order as <<key, value>> pairs, the text before its first child, the text
\* between its end tag and the next sibling (tail), and its children.
Element(tag, attrib, txt, tail, children) ==
    [tag |-> tag, attrib |-> attrib, text |-> txt, tail |-> tail,
     children |-> children]

\* ElementTree's name of an element or attribute with namespace uri and
\* local name: "{uri}local", or "local" without a namespace.
Clark(uri, local) ==
    IF uri = <<>> THEN local ELSE <<"{">> \o uri \o <<"}">> \o local

\* str.replace(old, new) for a one-character old and a new of at most one
\* character (given as a sequence).
RECURSIVE Replace(_, _, _)
Replace(s, old, new) ==
    IF s = <<>> THEN <<>>
    ELSE (IF Head(s) = old THEN new ELSE <<Head(s)>>) \o Replace(Tail(s), old, new)

xml_tag_to_json_tag(xml_tag) == Replace(Replace(xml_tag, "{", <<>>), "}", <<":">>)

EmptyDict == <<>>

\* d[k] = v on a dict.
SetItem(d, k, v) == [x \in DOMAIN d \cup {k} |-> IF x = k THEN v ELSE d[x]]

TextKey == <<"#","t","e","x","t">>

\* The dict comprehension of get_node_content over node.attrib.items(): the
\* first attribute value text_to_value raises on ends it.
RECURSIVE AttribContent(_, _)
AttribEntry(attrib, d, val) ==
    IF IsError(val) THEN val
    ELSE AttribContent(Tail(attrib),
                       SetItem(d, <<"@">> \o xml_tag_to_json_tag(Head(attrib)[1]), val))
AttribContent(attrib, d) ==
    IF attrib = <<>> THEN PyDict(d)
    ELSE AttribEntry(attrib, d, text_to_value(Head(attrib)[2]))

\* `if converted_text:` and what follows it in get_node_content.
AddText(content, converted_text) ==
    IF IsError(converted_text) THEN converted_text
    ELSE IF ~Truthy(converted_text) THEN content
    ELSE IF Truthy(content)
         THEN PyDict(SetItem(content.d, TextKey, converted_text))
    ELSE converted_text

\* `if node.text:` and what follows it in get_node_content.
NodeText(node, content) ==
    IF IsError(content) THEN content
    ELSE IF node.text = <<>> THEN content
    ELSE AddText(content, text_to_value(node.text))

get_node_content(node) ==
    NodeText(node, IF node.attrib # <<>>
                   THEN AttribContent(node.attrib, EmptyDict)
                   ELSE PyDict(EmptyDict))

\* The look-ahead loop of parse_xml over a dict: a tag already in content
\* gets a list, any other an empty dict.
RECURSIVE LookAhead(_, _)
Reserve(d, child_tag) ==
    SetItem(d, child_tag,
            IF child_tag \in DOMAIN d THEN PyList(<<>>) ELSE PyDict(EmptyDict))
LookAhead(d, children) ==
    IF children = <<>> THEN d
    ELSE LookAhead(Reserve(d, xml_tag_to_json_tag(Head(children).tag)),
                   Tail(children))

\* isinstance(v, Iterable)
IsIterable(v) == v.type \in {"str", "object", "list"}

RECURSIVE parse_xml(_)
RECURSIVE Populate(_, _)

\* The second loop of parse_xml: the first child parse_xml raises on ends it.
\* One round of the second loop: the child's value is appended to the list
\* of its tag or stored under its tag.
Insert(d, children, child_tag, val) ==
    IF IsError(val) THEN val
    ELSE IF d[child_tag].type = "list"
    THEN Populate(SetItem(d, child_tag, PyList(Append(d[child_tag].l, val))),
                  Tail(children))
    ELSE Populate(SetItem(d, child_tag, val), Tail(children))

Populate(d, children) ==
    IF children = <<>> THEN PyDict(d)
    ELSE Insert(d, children, xml_tag_to_json_tag(Head(children).tag),
                parse_xml(Head(children)))

\* `if root:` and the two loops of parse_xml.  On a content that is a str,
\* an int, a float or a bool, `child_tag in content` or the assignment
\* `content[child_tag] = ...` raises TypeError.
Children(node, content) ==
    IF IsError(content) THEN content
    ELSE IF node.children = <<>> THEN content
    ELSE IF content.type # "object" THEN TypeError
    ELSE Populate(LookAhead(content.d, node.children), node.children)

\* A parse_xml that returns content as it stands, an empty dict included.
EmptyToNone_Kept(content) == content

\* `if isinstance(content, Iterable) and not content: return None`
EmptyToNone(content) ==
    IF IsError(content) THEN content
    ELSE IF IsIterable(content) /\ ~Truthy(content) THEN PyNone
    ELSE content

parse_xml(node) == EmptyToNone(Children(node, get_node_content(node)))

\* The dict root_to_dict builds around parse_xml's value.
Wrap(tag, v) == IF IsError(v) THEN v ELSE PyDict(SetItem(EmptyDict, tag, v))

root_to_dict(r) == Wrap(xml_tag_to_json_tag(r.tag), parse_xml(r))

----------------------------------------------------------------------------
(* Documents *)

\* Namespace URIs: a plain one, and one holding a brace, which a well-formed
\* document may declare (xmlns:p="u{").
PlainUri == <<"n">>
BraceUri == <<"u","{">>

Tags == {Clark(<<>>, <<"b">>), Clark(BraceUri, <<"c">>)}
\* No attribute, or k="" and p:j="1".
Attribs == {<<>>,
            << <<Clark(<<>>, <<"k">>), <<>>>>,
               <<Clark(PlainUri, <<"j">>), <<"1">>>> >>}
Texts == {<<>>, <<" ">>, <<"a">>, <<"0">>}
Tails == {<<>>, <<"d">>}

\* What one element of a document holds beside its children.
Labels == [tag : Tags, attrib : Attribs, text : Texts]

\* Whether element a is element j or one of its ancestors, under the parent
\* function p of a document whose elements are numbered in document order.
RECURSIVE IsAncestorOrSelf(_, _, _)
IsAncestorOrSelf(p, a, j) ==
    a = j \/ (j > 1 /\ IsAncestorOrSelf(p, a, p[j]))

\* The shapes of the documents of n elements: the parent of each element
\* after the first is an element still open when it starts.
Shapes(n) ==
    {p \in [2..n -> 1..(n - 1)] :
        \A i \in 2..n : p[i] < i /\ IsAncestorOrSelf(p, p[i], i - 1)}

RECURSIVE Ascending(_)
Ascending(S) ==
    IF S = {} THEN <<>> ELSE <<SetMin(S)>> \o Ascending(S \ {SetMin(S)})

\* Element i of the document of shape p and labels lab, without tail text.
RECURSIVE BuildElement(_, _, _)
BuildElement(p, lab, i) ==
    LET kids == Ascending({j \in DOMAIN p : p[j] = i})
    IN  Element(lab[i].tag, lab[i].attrib, lab[i].text, <<>>,
                [k \in 1..Len(kids) |-> BuildElement(p, lab, kids[k])])

\* Mixed content: an element with text around its childless children.
MixedKids == {Element(tag, <<>>, <<>>, tail, <<>>) : tag \in Tags, tail \in Tails}
MixedDocs ==
    {Element(<<"b">>, attrib, txt, <<>>, kids) :
        attrib \in Attribs, txt \in Texts,
        kids \in UNION {[1..n -> MixedKids] : n \in 1..(MaxNodes - 1)}}


----------------------------------------------------------------------------
(* SpecTree: root_to_dict applied to a document *)

Idle == <<"idle">>

TreeInit ==
    /\ \/ \E n \in 1..MaxNodes : \E p \in Shapes(n) : \E lab \in [1..n -> Labels] :
             root = BuildElement(p, lab, 1)
       \/ root \in MixedDocs
    /\ result = PyNone
    /\ pc = "start"
    /\ text = Idle /\ value = PyNone
    /\ fs = Idle /\ files = Idle /\ idx = 0 /\ written = Idle /\ diags = Idle

Convert ==
    /\ pc = "start"
    /\ result' = root_to_dict(root)
    /\ pc' = "done"
    /\ UNCHANGED <<text, value, root, fs, files, idx, written, diags>>

TreeNext == Convert

SpecTree == TreeInit /\ [][TreeNext]_vars

----------------------------------------------------------------------------
(* SpecCoerce: text_to_value applied to a text *)

CoerceChars == {"0", "1", "a", "e", " ", ".", "-", "SUP2"}
Words == {<<"t","r","u","e">>, <<"T","R","U","E">>, <<"T","r","u","e">>,
          <<"f","a","l","s","e">>, <<"F","a","l","s","e">>,
          <<"n","a","n">>, <<"i","n","f">>, <<"d","a","t","a">>,
          <<"x","y","z">>, <<"4",".","5">>, <<"2","7">>, <<"1","_","0">>}

CoerceInit ==
    /\ \/ \E n \in 0..MaxTextLen : text \in [1..n -> CoerceChars]
       \/ text \in Words
    /\ value = PyNone
    /\ pc = "start"
    /\ root = Idle /\ result = PyNone
    /\ fs = Idle /\ files = Idle /\ idx = 0 /\ written = Idle /\ diags = Idle

Coerce ==
    /\ pc = "start"
    /\ value' = text_to_value(text)
    /\ pc' = "done"
    /\ UNCHANGED <<text, root, result, fs, files, idx, written, diags>>

CoerceNext == Coerce

SpecCoerce == CoerceInit /\ [][CoerceNext]_vars

----------------------------------------------------------------------------
(* Spec: main over a list of file names *)

\* os.path.splitext(p)[0]: p up to its last dot, when that dot lies in the
\* last path component and follows a character of it that is not a dot.
SplitextRoot(p) ==
    LET sep  == Positions(p, {"/"})
        dots == Positions(p, {"."})
        sepIndex == IF sep = {} THEN 0 ELSE SetMax(sep)
        dotIndex == IF dots = {} THEN 0 ELSE SetMax(dots)
    IN  IF dotIndex > sepIndex
           /\ \E i \in (sepIndex + 1)..(dotIndex - 1) : p[i] # "."
        THEN SubSeq(p, 1, dotIndex - 1)
        ELSE p

ParsedSuffix == <<"_","p","a","r","s","e","d",".","j","s","o","n">>
OutFile(file) == SplitextRoot(file) \o ParsedSuffix

FileNames == {<<"a",".","x">>, <<"b",".","x">>, <<"c">>}

\* <b/>, which root_to_dict converts, and <b>a<b/></b>, on which it raises.
MainDocs == {Element(<<"b">>, <<>>, <<>>, <<>>, <<>>),
             Element(<<"b">>, <<>>, <<"a">>, <<>>,
                     <<Element(<<"b">>, <<>>, <<>>, <<>>, <<>>)>>)}

\* What a path holds: nothing (os.path.exists is false), text ET.parse
\* raises ParseError on, or a well-formed document.
Absent == [kind |-> "absent"]
Malformed == [kind |-> "malformed"]
WellFormed(doc) == [kind |-> "xml", doc |-> doc]
FileContents == {Absent, Malformed} \cup {WellFormed(d) : d \in MainDocs}

Init ==
    /\ fs \in [FileNames -> FileContents]
    /\ \E n \in 0..MaxFiles : files \in [1..n -> FileNames]
    /\ idx = 1
    /\ written = EmptyDict
    /\ diags = <<>>
    /\ pc = "loop"
    /\ text = Idle /\ value = PyNone /\ root = Idle /\ result = PyNone

InLoop == pc = "loop" /\ idx <= Len(files)

\* root_to_dict(get_root_from_xml(file)) for a file holding a document.
Converted(file) == root_to_dict(fs[file].doc)

\* `if not os.path.exists(file)`: the diagnostic, then `continue`.
FileNotFound ==
    /\ InLoop
    /\ fs[files[idx]] = Absent
    /\ diags' = Append(diags, <<files[idx], "can't be found">>)
    /\ idx' = idx + 1
    /\ UNCHANGED <<text, value, root, result, fs, files, written, pc>>

\* `except ET.ParseError`: the diagnostic, then `continue`.
CannotParse ==
    /\ InLoop
    /\ fs[files[idx]] = Malformed
    /\ diags' = Append(diags, <<files[idx], "cannot be parsed">>)
    /\ idx' = idx + 1
    /\ UNCHANGED <<text, value, root, result, fs, files, written, pc>>

\* root_to_dict returns and json.dump writes the output file.
WriteOutput ==
    /\ InLoop
    /\ fs[files[idx]].kind = "xml"
    /\ ~IsError(Converted(files[idx]))
    /\ written' = SetItem(written, OutFile(files[idx]), Converted(files[idx]))
    /\ idx' = idx + 1
    /\ UNCHANGED <<text, value, root, result, fs, files, diags, pc>>

\* root_to_dict raises: main catches nothing around it, the exception
\* leaves main and the files that follow are not reached.
ConversionRaises ==
    /\ InLoop
    /\ fs[files[idx]].kind = "xml"
    /\ IsError(Converted(files[idx]))
    /\ pc' = "raised"
    /\ UNCHANGED <<text, value, root, result, fs, files, idx, written, diags>>

\* The for loop ends and main returns.
Return ==
    /\ pc = "loop"
    /\ idx > Len(files)
    /\ pc' = "done"
    /\ UNCHANGED <<text, value, root, result, fs, files, idx, written, diags>>

Next == FileNotFound \/ CannotParse \/ WriteOutput \/ ConversionRaises \/ Return

Spec == Init /\ [][Next]_vars

----------------------------------------------------------------------------
(* What the claims speak of *)

\* An element and all its descendants.
RECURSIVE Elements(_)
Elements(node) ==
    {node} \cup UNION {Elements(node.children[i]) : i \in 1..Len(node.children)}

\* The namespace URI and the local name of an ElementTree name.
UriOf(tag) ==
    IF tag # <<>> /\ tag[1] = "{"
    THEN SubSeq(tag, 2, SetMin(Positions(tag, {"}"})) - 1) ELSE <<>>
LocalOf(tag) ==
    IF tag # <<>> /\ tag[1] = "{"
    THEN SubSeq(tag, SetMin(Positions(tag, {"}"})) + 1, Len(tag)) ELSE tag

\* The qualified name of the specification: "<namespace-uri>:<local-name>"
\* with a namespace, the bare local name without.
QualifiedName(tag) ==
    IF UriOf(tag) = <<>> THEN LocalOf(tag) ELSE UriOf(tag) \o <<":">> \o LocalOf(tag)

\* The children of node whose tag converts to the key t, in document order.
Tagged(node, t) ==
    SelectSeq(node.children, LAMBDA c : xml_tag_to_json_tag(c.tag) = t)
ChildKeys(node) ==
    {xml_tag_to_json_tag(node.children[i].tag) : i \in 1..Len(node.children)}

\* Every key of every object of a value, at every depth.
RECURSIVE AllKeys(_)
AllKeys(v) ==
    CASE v.type = "object" ->
           DOMAIN v.d \cup UNION {AllKeys(v.d[k]) : k \in DOMAIN v.d}
      [] v.type = "list" -> UNION {AllKeys(v.l[i]) : i \in 1..Len(v.l)}
      [] OTHER -> {}

\* No empty object, list or string in a value, at any depth.
RECURSIVE NoEmpty(_)
NoEmpty(v) ==
    CASE v.type = "object" ->
           DOMAIN v.d # {} /\ \A k \in DOMAIN v.d : NoEmpty(v.d[k])
      [] v.type = "list" -> v.l # <<>> /\ \A i \in 1..Len(v.l) : NoEmpty(v.l[i])
      [] v.type = "str" -> v.s # <<>>
      [] OTHER -> TRUE

\* Text that is absent or holds white space only.
IsBlank(t) == \A i \in 1..Len(t) : t[i] \in Whitespace

\* The text segments that belong directly to a node, in document order: its
\* text, then the tail of each child.
RECURSIVE TailTexts(_)
TailTexts(children) ==
    IF children = <<>> THEN <<>>
    ELSE Head(children).tail \o TailTexts(Tail(children))
DirectText(node) == node.text \o TailTexts(node.children)

IsValue(v) == ~IsError(v) /\ v # PyNone

----------------------------------------------------------------------------
(* Claims *)

\* C1: parse_xml and text_to_value are total: on every well-formed tree,
\* whatever the attributes, text and children of its nodes, the conversion
\* returns a value and raises no error.
C1_ConversionTotal == pc = "done" => ~IsError(result)

\* C2: for every node with children and every child tag t, the result maps
\* t to the list of the conversions of the children tagged t, in document
\* order, when t occurs twice or more, and to the conversion of the one
\* child tagged t when it occurs once.
C2_ListsByMultiplicity ==
    pc = "done" =>
        \A node \in Elements(root) : \A t \in ChildKeys(node) :
            /\ parse_xml(node).type = "object"
            /\ t \in DOMAIN parse_xml(node).d
            /\ parse_xml(node).d[t] =
                 IF Len(Tagged(node, t)) >= 2
                 THEN PyList([i \in 1..Len(Tagged(node, t)) |->
                                parse_xml(Tagged(node, t)[i])])
                 ELSE parse_xml(Tagged(node, t)[1])

\* C3: a childless node whose text coerces to a non-null value v converts
\* to v itself without attributes, and to its attribute entries plus
\* "#text": v with attributes.
C3_ChildlessText ==
    pc = "done" =>
        \A node \in Elements(root) :
            (node.children = <<>> /\ IsValue(text_to_value(node.text))) =>
                parse_xml(node) =
                    IF node.attrib = <<>> THEN text_to_value(node.text)
                    ELSE PyDict(SetItem(AttribContent(node.attrib, EmptyDict).d,
                                        TextKey, text_to_value(node.text)))

\* C4: a node with a child and text whose coercion is non-null converts to
\* an object with a key per child tag and the key "#text" holding the
\* coerced text, with or without attributes.
C4_TextBesideChildren ==
    pc = "done" =>
        \A node \in Elements(root) :
            (node.children # <<>> /\ IsValue(text_to_value(node.text))) =>
                /\ parse_xml(node).type = "object"
                /\ ChildKeys(node) \cup {TextKey} \subseteq DOMAIN parse_xml(node).d
                /\ parse_xml(node).d[TextKey] = text_to_value(node.text)

\* C5: a text that is no boolean literal, not all digits and no float comes
\* back unchanged when it holds a character of [A-Za-z0-9], and as null
\* only when it holds none.
C5_AlphanumericTextKept ==
    (/\ pc = "done"
     /\ Casefold(text) \notin {<<"t","r","u","e">>, <<"f","a","l","s","e">>}
     /\ ~IsDigit(Casefold(text))
     /\ ~FloatOk(Casefold(text))) =>
        value = IF \E i \in 1..Len(text) : text[i] \in Letters \cup DecimalChars
                THEN PyStr(text) ELSE PyNone

\* C6: text_to_value yields a boolean for "true" and "false" in any case,
\* else an integer for a text of digits, else a float for a number with a
\* point or an exponent; a word made only of letters stays a string.
C6_ClassifiedByType ==
    pc = "done" =>
        IF Casefold(text) \in {<<"t","r","u","e">>, <<"f","a","l","s","e">>}
        THEN value.type = "bool"
        ELSE /\ (text # <<>> /\ \A i \in 1..Len(text) : text[i] \in DecimalChars)
                  => value = PyInt(NatOf(text))
             /\ (IsFloatNumber(text) /\ Positions(text, {".", "e", "E"}) # {})
                  => value.type = "float"
             /\ (text # <<>> /\ \A i \in 1..Len(text) : text[i] \in Letters)
                  => value = PyStr(text)

\* C7: when main has ended, every file of the list was reached: each file
\* that is missing or fails to parse is named by a diagnostic and has no
\* output, and each file holding well-formed XML has its output written
\* under its name with the extension replaced by _parsed.json.
C7_EveryFileHandled ==
    pc \in {"done", "raised"} =>
        \A i \in 1..Len(files) :
            IF fs[files[i]].kind = "xml"
            THEN OutFile(files[i]) \in DOMAIN written
            ELSE \E j \in 1..Len(diags) : diags[j][1] = files[i]

\* C8: every key of every object of root_to_dict's output is the qualified
\* name of an element, '@' and the qualified name of an attribute, or '#text'.
C8_KeysAreQualifiedNames ==
    (pc = "done" /\ ~IsError(result)) =>
        AllKeys(result) \subseteq
            {QualifiedName(node.tag) : node \in Elements(root)}
            \cup UNION {{<<"@">> \o QualifiedName(node.attrib[i][1]) :
                           i \in 1..Len(node.attrib)} : node \in Elements(root)}
            \cup {TextKey}

\* C9: the output of parse_xml holds no empty object, list or string at any
\* depth; a node without attributes and children whose text is absent or
\* white space converts to null, and one with attributes whose text is white
\* space to its attribute entries alone.
C9_NothingEmpty ==
    pc = "done" =>
        /\ ~IsError(result) => NoEmpty(result)
        /\ \A node \in Elements(root) :
              (node.children = <<>> /\ IsBlank(node.text)) =>
                  parse_xml(node) =
                      IF node.attrib = <<>> THEN PyNone
                      ELSE AttribContent(node.attrib, EmptyDict)

\* A document was converted that holds a list of children, a blank node
\* without attributes and a node with attributes and white space for text.
C9_Witness ==
    /\ pc = "done"
    /\ ~IsError(result)
    /\ \E node \in Elements(root) : \E t \in ChildKeys(node) :
          Len(Tagged(node, t)) >= 2
    /\ \E node \in Elements(root) :
          node.children = <<>> /\ node.attrib = <<>> /\ node.text = <<" ">>
    /\ \E node \in Elements(root) :
          node.children = <<>> /\ node.attrib # <<>> /\ node.text = <<" ">>

\* C10: the value coerced for a node with children is that of all the text
\* segments belonging directly to it, concatenated in document order.
\* Stated of the nodes whose conversion holds a "#text" at all.
C10_TextSegmentsConcatenated ==
    pc = "done" =>
        \A node \in Elements(root) :
            (/\ node.children # <<>>
             /\ parse_xml(node).type = "object"
             /\ TextKey \in DOMAIN parse_xml(node).d) =>
                parse_xml(node).d[TextKey] = text_to_value(DirectText(node))

====
